---- MODULE Spec2Model ----
(***************************************************************************)
(* A model of sshagent/trezor/client.py: the identity codec, the key-path  *)
(* deriver, the SSH blob codec, the signature processor and the Client     *)
(* session that composes them around an external signer.                   *)
(*                                                                         *)
(* Text is a sequence of one-character strings, bytes are numbers in       *)
(* 0..255, and a byte string is a sequence of bytes.  The code is Python 2 *)
(* (line 73 compares signature[0] with b'\x00'), so str and bytes are the  *)
(* same type and carry the same values.                                    *)
(***************************************************************************)
EXTENDS Integers, Sequences, FiniteSets, TLC

VARIABLES op, arg, returned, requests, scope, cleared, closed, history

vars == <<op, arg, returned, requests, scope, cleared, closed, history>>

(***************************************************************************)
(* Bounds of the model.                                                    *)
(***************************************************************************)
MaxCompLen == 1
MaxPathLen == 2
MaxFieldLen == 1
MaxIndex == 1
NKeys == 1

(***************************************************************************)
(* Characters.                                                             *)
(***************************************************************************)
NL == "\n"

\* A word character, and a character that \w does not match.
WordChars == {"s"}

PortChars == WordChars \cup {"-"}

\* The host may hold a line break.
HostChars == WordChars \cup {NL}

\* The path may hold any character, the delimiters included; "://" is a
\* piece of its own.
PathPieces == {<<"s">>, <<":">>, <<"/">>, <<"@">>, <<":", "/", "/">>}

None == <<"None">>

\* The strings of at most n pieces.
RECURSIVE StringsUpTo(_, _)
StringsUpTo(pieces, n) ==
    IF n = 0 THEN {<<>>}
    ELSE LET shorter == StringsUpTo(pieces, n - 1)
         IN  shorter \cup {t \o c : t \in shorter, c \in pieces}

Chars(cs) == {<<c>> : c \in cs}

(***************************************************************************)
(* _identity_regexp, matched as Python's backtracking matcher does: the    *)
(* alternatives of every group are tried in the order of their priority    *)
(* and the first complete match wins.                                      *)
(***************************************************************************)
NoMatch == [ok |-> FALSE]

\* '.' (no DOTALL): any character but a line break.
Dot(c) == c # NL

\* \w on the characters of the model.
IsWord(c) == c \in WordChars

\* '$' (no MULTILINE): the end of the string, or just before a line break
\* that ends it.
AtEnd(s, p) == p = Len(s) + 1 \/ (p = Len(s) /\ s[p] = NL)

\* The number of characters from position p on that '.*' can take.
RECURSIVE DotRun(_, _)
DotRun(s, p) == IF p <= Len(s) /\ Dot(s[p]) THEN 1 + DotRun(s, p + 1) ELSE 0

RECURSIVE WordRun(_, _)
WordRun(s, p) == IF p <= Len(s) /\ IsWord(s[p]) THEN 1 + WordRun(s, p + 1) ELSE 0

Starts(s, p, lit) ==
    /\ p + Len(lit) - 1 <= Len(s)
    /\ \A i \in 1..Len(lit) : s[p + i - 1] = lit[i]

\* The first of two alternatives that matches.
FirstOf(a, b) == IF a.ok THEN a ELSE b

\* (?P<path>/.*)?$ at position p, '.*' taking j characters (longest first).
RECURSIVE PathScan(_, _, _)
PathScan(s, p, j) ==
    IF AtEnd(s, p + 1 + j)
    THEN [ok |-> TRUE, path |-> SubSeq(s, p, p + j)]
    ELSE IF j = 0 THEN NoMatch ELSE PathScan(s, p, j - 1)

PathEnd(s, p) ==
    FirstOf(IF Starts(s, p, <<"/">>) THEN PathScan(s, p, DotRun(s, p + 1)) ELSE NoMatch,
            IF AtEnd(s, p) THEN [ok |-> TRUE, path |-> None] ELSE NoMatch)

\* (?::(?P<port>\w*))? and the rest, \w* taking j characters (longest first).
RECURSIVE PortScan(_, _, _)
PortTaken(s, p, j, rest) ==
    IF rest.ok
    THEN [ok |-> TRUE, port |-> SubSeq(s, p + 1, p + j), path |-> rest.path]
    ELSE IF j = 0 THEN NoMatch ELSE PortScan(s, p, j - 1)

PortScan(s, p, j) == PortTaken(s, p, j, PathEnd(s, p + 1 + j))

PortSkipped(rest) ==
    IF rest.ok THEN [ok |-> TRUE, port |-> None, path |-> rest.path] ELSE NoMatch

PortTail(s, p) ==
    FirstOf(IF Starts(s, p, <<":">>) THEN PortScan(s, p, WordRun(s, p + 1)) ELSE NoMatch,
            PortSkipped(PathEnd(s, p)))

\* (?P<host>.*?) and the rest, '.*?' taking k characters (shortest first).
RECURSIVE HostScan(_, _, _)
HostTaken(s, p, k, rest) ==
    IF rest.ok
    THEN [ok |-> TRUE, host |-> SubSeq(s, p, p + k - 1),
          port |-> rest.port, path |-> rest.path]
    ELSE IF p + k <= Len(s) /\ Dot(s[p + k]) THEN HostScan(s, p, k + 1)
    ELSE NoMatch

HostScan(s, p, k) == HostTaken(s, p, k, PortTail(s, p + k))

HostTail(s, p) == HostScan(s, p, 0)

\* (?:(?P<user>.*)@)? and the rest, '.*' taking k characters (longest first).
RECURSIVE UserScan(_, _, _)
UserTaken(s, p, k, rest) ==
    IF rest.ok
    THEN [ok |-> TRUE, user |-> SubSeq(s, p, p + k - 1), host |-> rest.host,
          port |-> rest.port, path |-> rest.path]
    ELSE IF k = 0 THEN NoMatch ELSE UserScan(s, p, k - 1)

UserScan(s, p, k) ==
    UserTaken(s, p, k, IF Starts(s, p + k, <<"@">>) THEN HostTail(s, p + k + 1) ELSE NoMatch)

UserSkipped(rest) ==
    IF rest.ok
    THEN [ok |-> TRUE, user |-> None, host |-> rest.host,
          port |-> rest.port, path |-> rest.path]
    ELSE NoMatch

UserTail(s, p) == FirstOf(UserScan(s, p, DotRun(s, p)), UserSkipped(HostTail(s, p)))

\* (?:(?P<proto>.*)://)? and the rest, '.*' taking k characters (longest first).
RECURSIVE ProtoScan(_, _)
ProtoTaken(s, k, rest) ==
    IF rest.ok
    THEN [ok |-> TRUE, proto |-> SubSeq(s, 1, k), user |-> rest.user,
          host |-> rest.host, port |-> rest.port, path |-> rest.path]
    ELSE IF k = 0 THEN NoMatch ELSE ProtoScan(s, k - 1)

ProtoScan(s, k) ==
    ProtoTaken(s, k, IF Starts(s, 1 + k, <<":", "/", "/">>) THEN UserTail(s, k + 4) ELSE NoMatch)

ProtoSkipped(rest) ==
    IF rest.ok
    THEN [ok |-> TRUE, proto |-> None, user |-> rest.user, host |-> rest.host,
          port |-> rest.port, path |-> rest.path]
    ELSE NoMatch

\* _identity_regexp.match(s): NoMatch stands for Python's None.
IdentityRegexpMatch(s) == FirstOf(ProtoScan(s, DotRun(s, 1)), ProtoSkipped(UserTail(s, 1)))

(***************************************************************************)
(* Results of a call: a value, or the exception that ended it.             *)
(***************************************************************************)
Raise(e) == [kind |-> "error", error |-> e]
Value(v) == [kind |-> "value", value |-> v]

Fields == {"proto", "user", "host", "port", "path"}

\* Python's truth of a captured group: None and '' are both false.
Truthy(v) == v # None /\ v # <<>>

\* identity_type(**kwargs): a message holding exactly the fields given.
IdentityType(kwargs) == kwargs

\* Reading a field of the identity message: an unset string field reads ''.
Field(id, k) == IF k \in DOMAIN id THEN id[k] ELSE <<>>

\* identity.index, 0 unless set.
Index(id) == IF "index" \in DOMAIN id THEN id["index"] ELSE 0

\* m.groupdict() and what follows it; m is None when nothing matched.
IdentityOfMatch(m) ==
    IF ~m.ok THEN Raise("AttributeError")
    ELSE Value(IdentityType([k \in {f \in Fields : Truthy(m[f])} |-> m[k]]))

_string_to_identity(s) == IdentityOfMatch(IdentityRegexpMatch(s))

\* _identity_to_string without the port.
_identity_to_string_no_port(id) ==
    (IF Field(id, "proto") # <<>> THEN Field(id, "proto") \o <<":", "/", "/">> ELSE <<>>)
    \o (IF Field(id, "user") # <<>> THEN Field(id, "user") \o <<"@">> ELSE <<>>)
    \o Field(id, "host")
    \o (IF Field(id, "path") # <<>> THEN Field(id, "path") ELSE <<>>)

_identity_to_string(id) ==
    (IF Field(id, "proto") # <<>> THEN Field(id, "proto") \o <<":", "/", "/">> ELSE <<>>)
    \o (IF Field(id, "user") # <<>> THEN Field(id, "user") \o <<"@">> ELSE <<>>)
    \o Field(id, "host")
    \o (IF Field(id, "port") # <<>> THEN <<":">> \o Field(id, "port") ELSE <<>>)
    \o (IF Field(id, "path") # <<>> THEN Field(id, "path") ELSE <<>>)

(***************************************************************************)
(* Bytes and 32-bit words.  A 32-bit unsigned integer is written as its    *)
(* four bytes, most significant first, so that values of 2^31 and more     *)
(* (every hardened index) are kept exactly.                                *)
(***************************************************************************)
Byte == 0..255

\* ord() of the characters of the model and of 'ssh'.
Ord(c) ==
    CASE c = "s" -> 115
      [] c = "h" -> 104
      [] c = "-" -> 45
      [] c = NL  -> 10
      [] c = ":" -> 58
      [] c = "/" -> 47
      [] c = "@" -> 64

\* str.encode('ascii')
EncodeAscii(s) == [i \in 1..Len(s) |-> Ord(s[i])]

\* struct.pack('<L', n)
PackLE32(n) == <<n % 256, (n \div 256) % 256, (n \div 65536) % 256, (n \div 16777216) % 256>>

\* A number below 2^31 as a word.
PackBE(n) == <<(n \div 16777216) % 256, (n \div 65536) % 256, (n \div 256) % 256, n % 256>>

\* The bitwise or of two numbers of n bits.
RECURSIVE OrBits(_, _, _)
OrBits(a, b, n) ==
    IF n = 0 THEN 0
    ELSE 2 * OrBits(a \div 2, b \div 2, n - 1) + (IF a % 2 = 1 \/ b % 2 = 1 THEN 1 ELSE 0)

\* hardened | value on words.
Or32(v, w) == [i \in 1..4 |-> OrBits(v[i], w[i], 8)]

IsU32(w) == DOMAIN w = 1..4 /\ \A i \in 1..4 : w[i] \in Byte

\* 0x80000000
hardened == <<128, 0, 0, 0>>

HasHardenedBit(w) == w[1] >= 128

AppIndex == 13

DigestLen == 32

\* formats.hashfunc(data).digest(): a stand-in for SHA-256 with its shape (a
\* deterministic function of the bytes to DigestLen bytes) and none of its
\* strength.
RECURSIVE Checksum(_, _, _)
Checksum(data, lo, hi) ==
    IF lo > hi THEN 7
    ELSE IF lo = hi THEN ((31 * lo + 7) * (data[lo] + 1)) % 65521
    ELSE (Checksum(data, lo, (lo + hi) \div 2)
          + 3 * Checksum(data, ((lo + hi) \div 2) + 1, hi)) % 65521

Spread(c) == [j \in 1..DigestLen |-> (c * (2 * j + 1) + (c \div 256) + j) % 256]

hashfunc(data) == Spread(Checksum(data, 1, Len(data)))

\* util.recv(s, '<LLLL'): four little-endian words off the head of the stream.
RecvLLLL(data) ==
    [k \in 1..4 |-> <<data[4 * k], data[4 * k - 1], data[4 * k - 2], data[4 * k - 3]>>]

(***************************************************************************)
(* The key-path deriver.                                                   *)
(***************************************************************************)
\* _get_address with the constant 13 left out of the hardening.
_get_address_unhardened_head(id) ==
    LET index     == PackLE32(Index(id))
        addr      == index \o EncodeAscii(_identity_to_string(id))
        digest    == hashfunc(addr)
        address_n == <<PackBE(AppIndex)>> \o RecvLLLL(digest)
    IN  [i \in 1..5 |-> IF i = 1 THEN address_n[i] ELSE Or32(hardened, address_n[i])]

_get_address(id) ==
    LET index     == PackLE32(Index(id))
        addr      == index \o EncodeAscii(_identity_to_string(id))
        digest    == hashfunc(addr)
        address_n == <<PackBE(AppIndex)>> \o RecvLLLL(digest)
    IN  [i \in 1..5 |-> Or32(hardened, address_n[i])]

(***************************************************************************)
(* The SSH blob codec.  A stream is the data and the position of the next  *)
(* unread byte.                                                            *)
(***************************************************************************)
\* struct.unpack('>L', b)
UnpackBE32(b) == ((b[1] * 256 + b[2]) * 256 + b[3]) * 256 + b[4]

\* util.read_frame(i): a 4-byte big-endian length, then that many bytes;
\* EOFError when the stream ends before either is complete.
read_frame(data, pos) ==
    LET avail == Len(data) - pos + 1
    IN  IF avail < 4 THEN [ok |-> FALSE]
        ELSE LET size == UnpackBE32(SubSeq(data, pos, pos + 3))
             IN  IF avail - 4 < size THEN [ok |-> FALSE]
                 ELSE [ok |-> TRUE,
                       value |-> SubSeq(data, pos + 4, pos + 3 + size),
                       pos |-> pos + 4 + size]

\* i.read(1): one byte, or nothing at the end of the stream.
Read1(data, pos) == IF pos <= Len(data) THEN pos + 1 ELSE pos

\* The reads of _parse_ssh_blob in their order; "" is an i.read(1).
BlobReads == <<"nonce", "", "user", "conn", "auth", "", "key_type", "public_key">>

FrameNames == {"nonce", "user", "conn", "auth", "key_type", "public_key"}

RECURSIVE ReadFields(_, _, _, _)
ReadFields(data, pos, n, res) ==
    IF n > Len(BlobReads) THEN [ok |-> TRUE, res |-> res, pos |-> pos]
    ELSE IF BlobReads[n] = "" THEN ReadFields(data, Read1(data, pos), n + 1, res)
    ELSE LET f == read_frame(data, pos)
         IN  IF ~f.ok THEN [ok |-> FALSE]
             ELSE ReadFields(data, f.pos, n + 1,
                             [k \in DOMAIN res \cup {BlobReads[n]} |->
                                 IF k = BlobReads[n] THEN f.value ELSE res[k]])

\* The marker byte of an uncompressed curve point.
PointMarker == 4

\* A serialized public key as the model writes it: the marker and the two
\* coordinates of the point, a byte each.
IsKeyBlob(b) == Len(b) = 3 /\ b[1] = PointMarker

fingerprint(b) == hashfunc(b)

\* formats.parse_pubkey(blob): the record of a well-formed key, an error on
\* any other bytes.
parse_pubkey(b) ==
    IF IsKeyBlob(b) THEN Value([blob |-> b, fingerprint |-> fingerprint(b)])
    ELSE Raise("AssertionError")

\* _parse_ssh_blob without its check for bytes left over.
_parse_ssh_blob_no_trailing_check(data) ==
    IF data = <<>> THEN Value(<<>>)
    ELSE LET r == ReadFields(data, 1, 1, <<>>)
         IN  IF ~r.ok THEN Raise("EOFError")
             ELSE LET key == parse_pubkey(r.res["public_key"])
                  IN  IF key.kind = "error" THEN key
                      ELSE Value([k \in FrameNames |->
                                     IF k = "public_key" THEN key.value ELSE r.res[k]])

_parse_ssh_blob(data) ==
    IF data = <<>> THEN Value(<<>>)
    ELSE LET r == ReadFields(data, 1, 1, <<>>)
         IN  IF ~r.ok THEN Raise("EOFError")
             ELSE LET key == parse_pubkey(r.res["public_key"])
                  IN  IF key.kind = "error" THEN key
                      ELSE IF r.pos <= Len(data) THEN Raise("AssertionError")
                      ELSE Value([k \in FrameNames |->
                                     IF k = "public_key" THEN key.value ELSE r.res[k]])

\* The frame of a field, as a peer writes it.
Frame(b) == PackBE(Len(b)) \o b

(***************************************************************************)
(* Keys, addresses and signatures.  A compressed public key is a prefix    *)
(* byte (2 or 3, the parity of y) and the coordinate x.                    *)
(***************************************************************************)
CurveY(x, prefix) == (x * x + 7 + prefix) % 256

\* formats.decompress_pubkey(pubkey): the point of a compressed key; an error
\* on malformed key material.
decompress_pubkey(pk) ==
    IF Len(pk) = 2 /\ pk[1] \in {2, 3}
    THEN Value([x |-> pk[2], y |-> CurveY(pk[2], pk[1])])
    ELSE Raise("ValueError")

\* formats.serialize_verifying_key(vk)
serialize_verifying_key(vk) == <<PointMarker, vk.x, vk.y>>

\* bitcoin.pubkey_to_address(pubkey)
pubkey_to_address(pk) == <<49>> \o [i \in 1..Len(pk) |-> (pk[i] * 5 + i) % 58]

\* A natural number of any size: its big-endian bytes without leading zeros.
RECURSIVE StripZeros(_)
StripZeros(b) == IF b # <<>> /\ b[1] = 0 THEN StripZeros(Tail(b)) ELSE b

\* util.bytes2num(b)
bytes2num(b) == StripZeros(b)

IntLen == 32

SigLen == 65

\* Python's slice b[lo:hi] (0-based, hi exclusive), cut to the bytes there are.
Slice(b, lo, hi) ==
    LET h == IF hi < Len(b) THEN hi ELSE Len(b)
    IN  IF lo >= h THEN <<>> ELSE SubSeq(b, lo + 1, h)

parse_signature(blob) ==
    LET sig == Slice(blob, 1, Len(blob))
        r   == bytes2num(Slice(sig, 0, IntLen))
        s   == bytes2num(Slice(sig, IntLen, Len(sig)))
    IN  <<r, s>>

\* The low byte of a natural number.
LowByte(n) == IF n = <<>> THEN 0 ELSE n[Len(n)]

\* The s that signs digest with r under the key of the point vk.
SigningS(vk, digest, r) == ((LowByte(r) + vk.x + digest[1]) % 255) + 1

\* VerifyingKey.verify_digest: r and s are in range (0 < r, s < 2^256, the
\* order of the curve being close to that) and satisfy the curve equation,
\* which here is a stand-in equation on the low bytes.
verify_digest(vk, sig, digest) ==
    /\ sig[1] # <<>> /\ Len(sig[1]) <= IntLen
    /\ sig[2] # <<>> /\ Len(sig[2]) <= IntLen
    /\ LowByte(sig[2]) = SigningS(vk, digest, sig[1])

\* bitcoin.electrum_sig_hash(message)
electrum_sig_hash(m) == hashfunc(<<24>> \o m)

message_digest(hidden, visual) ==
    LET hidden_digest == hashfunc(hidden)
        visual_digest == hashfunc(visual)
    IN  electrum_sig_hash(hidden_digest \o visual_digest)

_validate_signature(result, digest) ==
    LET verifying_key == decompress_pubkey(result.public_key)
    IN  IF verifying_key.kind = "error" THEN verifying_key
        ELSE LET signature == parse_signature(result.signature)
             IN  IF verify_digest(verifying_key.value, signature, digest)
                 THEN Value(0)
                 ELSE Value(1)

(***************************************************************************)
(* The Client.  Every method is an operator of its arguments and of the    *)
(* signer's replies to the requests it makes; it yields the result of the  *)
(* call and the requests sent to the signer, in their order.  A reply is   *)
(* either a failure (the device is gone, the user refuses: the request     *)
(* raises) or the answer.                                                  *)
(***************************************************************************)
SSH == <<"s", "s", "h">>

curve_name == "nist256p1"

Request(name, args) == [name |-> name, args |-> args]

Outcome(r, reqs) == [returned |-> r, requests |-> reqs]

Names(reqs) == {reqs[i].name : i \in DOMAIN reqs}

get_identity(label, protocol) ==
    LET parsed == _string_to_identity(label)
    IN  IF parsed.kind = "error" \/ protocol = None THEN parsed
        ELSE Value([k \in DOMAIN parsed.value \cup {"proto"} |->
                       IF k = "proto" THEN protocol ELSE parsed.value[k]])

\* formats.export_public_key(pubkey, label)
export_public_key(pubkey, label) ==
    LET vk == decompress_pubkey(pubkey)
    IN  IF vk.kind = "error" THEN vk
        ELSE Value([blob |-> serialize_verifying_key(vk.value), label |-> label])

\* get_public_key without its check of the protocol.
get_public_key_any_proto(id, signer) ==
    LET label == _identity_to_string(id)
        addr  == _get_address(id)
        req   == Request("get_public_node", [n |-> addr, ecdsa_curve_name |-> curve_name])
    IN  IF signer.node.fails THEN Outcome(Raise("SignerError"), <<req>>)
        ELSE Outcome(export_public_key(signer.node.public_key, label), <<req>>)

get_public_key(id, signer) ==
    IF Field(id, "proto") # SSH THEN Outcome(Raise("AssertionError"), <<>>)
    ELSE LET label == _identity_to_string(id)
             addr  == _get_address(id)
             req   == Request("get_public_node", [n |-> addr, ecdsa_curve_name |-> curve_name])
         IN  IF signer.node.fails THEN Outcome(Raise("SignerError"), <<req>>)
             ELSE Outcome(export_public_key(signer.node.public_key, label), <<req>>)

\* sign_ssh_challenge without its comparison of the two public keys.
sign_ssh_challenge_no_key_check(id, blob, signer) ==
    IF Field(id, "proto") # SSH THEN Outcome(Raise("AssertionError"), <<>>)
    ELSE LET msg == _parse_ssh_blob(blob)
         IN  IF msg.kind = "error" THEN Outcome(msg, <<>>)
             ELSE IF "user" \notin DOMAIN msg.value THEN Outcome(Raise("KeyError"), <<>>)
             ELSE LET req == Request("sign_identity",
                                     [identity |-> id, challenge_hidden |-> blob,
                                      challenge_visual |-> Field(id, "path"),
                                      ecdsa_curve_name |-> curve_name])
                      result == signer.result
                      verifying_key == decompress_pubkey(result.public_key)
                  IN  IF result.fails THEN Outcome(Raise("SignerError"), <<req>>)
                      ELSE IF verifying_key.kind = "error" THEN Outcome(verifying_key, <<req>>)
                      ELSE IF Len(result.signature) # SigLen
                      THEN Outcome(Raise("AssertionError"), <<req>>)
                      ELSE IF result.signature[1] # 0
                      THEN Outcome(Raise("AssertionError"), <<req>>)
                      ELSE Outcome(Value(parse_signature(result.signature)), <<req>>)

sign_ssh_challenge(id, blob, signer) ==
    IF Field(id, "proto") # SSH THEN Outcome(Raise("AssertionError"), <<>>)
    ELSE LET msg == _parse_ssh_blob(blob)
         IN  IF msg.kind = "error" THEN Outcome(msg, <<>>)
             \* msg['user'] of the empty record, in the log.info call
             ELSE IF "user" \notin DOMAIN msg.value THEN Outcome(Raise("KeyError"), <<>>)
             ELSE LET req == Request("sign_identity",
                                     [identity |-> id, challenge_hidden |-> blob,
                                      challenge_visual |-> Field(id, "path"),
                                      ecdsa_curve_name |-> curve_name])
                      result == signer.result
                      verifying_key == decompress_pubkey(result.public_key)
                  IN  IF result.fails THEN Outcome(Raise("SignerError"), <<req>>)
                      ELSE IF verifying_key.kind = "error" THEN Outcome(verifying_key, <<req>>)
                      ELSE IF serialize_verifying_key(verifying_key.value)
                                  # msg.value["public_key"].blob
                      THEN Outcome(Raise("AssertionError"), <<req>>)
                      ELSE IF Len(result.signature) # SigLen
                      THEN Outcome(Raise("AssertionError"), <<req>>)
                      ELSE IF result.signature[1] # 0
                      THEN Outcome(Raise("AssertionError"), <<req>>)
                      ELSE Outcome(Value(parse_signature(result.signature)), <<req>>)

\* expected_address=None
NoAddress == <<256>>

\* The rest of sign_identity once the address is known and has been compared.
SignAndValidate(id, address, visual, hidden, signer, req1) ==
    LET req3   == Request("sign_identity",
                          [identity |-> id, challenge_hidden |-> hidden,
                           challenge_visual |-> visual])
        result == signer.result
    IN  IF result.fails THEN Outcome(Raise("SignerError"), <<req1, req3>>)
        ELSE IF address # result.address
        THEN Outcome(Raise("AssertionError"), <<req1, req3>>)
        ELSE IF signer.node.public_key # result.public_key
        THEN Outcome(Raise("AssertionError"), <<req1, req3>>)
        ELSE Outcome(_validate_signature(result, message_digest(hidden, visual)),
                     <<req1, req3>>)

\* sign_identity signing where it should only display the address.
sign_identity_signs_unconfirmed(label, expected_address, visual, hidden, signer) ==
    LET got == get_identity(label, None)
    IN  IF got.kind = "error" THEN Outcome(got, <<>>)
        ELSE LET id   == got.value
                 req1 == Request("get_public_node", [n |-> _get_address(id)])
                 address == pubkey_to_address(signer.node.public_key)
             IN  IF signer.node.fails THEN Outcome(Raise("SignerError"), <<req1>>)
                 ELSE SignAndValidate(id, address, visual, hidden, signer, req1)

\* sign_identity without its comparison of the address with the expected one.
sign_identity_no_address_check(label, expected_address, visual, hidden, signer) ==
    LET got == get_identity(label, None)
    IN  IF got.kind = "error" THEN Outcome(got, <<>>)
        ELSE LET id   == got.value
                 derivation_path == _get_address(id)
                 req1 == Request("get_public_node", [n |-> derivation_path])
                 req2 == Request("get_address",
                                 [n |-> derivation_path, coin_name |-> "Bitcoin",
                                  show_display |-> TRUE])
                 address == pubkey_to_address(signer.node.public_key)
             IN  IF signer.node.fails THEN Outcome(Raise("SignerError"), <<req1>>)
                 ELSE IF expected_address = NoAddress
                 THEN IF signer.display.fails
                      THEN Outcome(Raise("SignerError"), <<req1, req2>>)
                      ELSE Outcome(Value(2), <<req1, req2>>)
                 ELSE SignAndValidate(id, address, visual, hidden, signer, req1)

sign_identity(label, expected_address, visual, hidden, signer) ==
    LET got == get_identity(label, None)
    IN  IF got.kind = "error" THEN Outcome(got, <<>>)
        ELSE LET id   == got.value
                 derivation_path == _get_address(id)
                 req1 == Request("get_public_node", [n |-> derivation_path])
                 req2 == Request("get_address",
                                 [n |-> derivation_path, coin_name |-> "Bitcoin",
                                  show_display |-> TRUE])
                 address == pubkey_to_address(signer.node.public_key)
             IN  IF signer.node.fails THEN Outcome(Raise("SignerError"), <<req1>>)
                 ELSE IF expected_address = NoAddress
                 THEN IF signer.display.fails
                      THEN Outcome(Raise("SignerError"), <<req1, req2>>)
                      ELSE Outcome(Value(2), <<req1, req2>>)
                 ELSE IF expected_address # address
                 THEN Outcome(Raise("AssertionError"), <<req1>>)
                 ELSE SignAndValidate(id, address, visual, hidden, signer, req1)

\* __exit__: clear_session(), then close(); a clear_session() that raises
\* ends the method there.
__exit__(clearFails) ==
    IF clearFails
    THEN [returned |-> Raise("SignerError"), requests |-> <<Request("clear_session", <<>>)>>,
          cleared |-> FALSE, closed |-> FALSE]
    ELSE [returned |-> Value(None),
          requests |-> <<Request("clear_session", <<>>), Request("close", <<>>)>>,
          cleared |-> TRUE, closed |-> TRUE]

(***************************************************************************)
(* The inputs of the model.                                                *)
(***************************************************************************)
\* Identity strings built from their parts; None is a part left out.
Optional(strings) == {None} \cup strings

Parts ==
    [proto : Optional(StringsUpTo(Chars(WordChars), MaxCompLen)),
     user  : Optional(StringsUpTo(Chars(WordChars), MaxCompLen)),
     host  : StringsUpTo(Chars(HostChars), MaxCompLen),
     port  : Optional(StringsUpTo(Chars(PortChars), MaxCompLen)),
     path  : Optional({<<"/">> \o p : p \in StringsUpTo(PathPieces, MaxPathLen)})]

Assemble(parts) ==
    (IF parts.proto # None THEN parts.proto \o <<":", "/", "/">> ELSE <<>>)
    \o (IF parts.user # None THEN parts.user \o <<"@">> ELSE <<>>)
    \o parts.host
    \o (IF parts.port # None THEN <<":">> \o parts.port ELSE <<>>)
    \o (IF parts.path # None THEN parts.path ELSE <<>>)

\* The labels the session is called with: a host, an ssh identity with a
\* user, the empty string, and a string the pattern does not match.
Labels ==
    {<<"s">>,
     <<"s", "s", "h", ":", "/", "/", "s", "@", "s">>,
     <<>>,
     <<"s", NL, "s">>}

Protocols == {None, <<>>, SSH}

Identities ==
    {get_identity(l, p).value :
        l \in {x \in Labels : _string_to_identity(x).kind = "value"}, p \in Protocols}

\* The identity with its index set by the caller.
WithIndex(id, n) == [k \in DOMAIN id \cup {"index"} |-> IF k = "index" THEN n ELSE id[k]]

GoodKeys == {<<prefix, x>> : prefix \in {2, 3}, x \in 1..NKeys}

\* What a signer may answer as a public key: a key, or malformed bytes.
SignerKeys == GoodKeys \cup {<<9, 1>>}

KeyBlobs == {serialize_verifying_key(decompress_pubkey(k).value) : k \in GoodKeys}

Addresses == {pubkey_to_address(k) : k \in GoodKeys}

Pad(v, n) == [i \in 1..n |-> IF i = n THEN v ELSE 0]

\* A signature blob of r and s (a byte each, zero-extended) behind a marker
\* byte: of 65 bytes, one byte short, or one byte long.
Shapes == {"exact", "short", "long"}

SignatureBlob(marker, r, s, shape) ==
    <<marker>> \o Pad(r, IntLen)
    \o Pad(s, CASE shape = "exact" -> IntLen
                [] shape = "short" -> IntLen - 1
                [] shape = "long"  -> IntLen + 1)

Markers == {0, 31}

\* A request that raised, and the reply to a request that was never sent.
Failed == [fails |-> TRUE, sent |-> TRUE]

Unused == [fails |-> TRUE, sent |-> FALSE]

NodeReplies == {Failed} \cup {[fails |-> FALSE, public_key |-> k] : k \in SignerKeys}

DisplayReplies == {Failed, [fails |-> FALSE]}

\* The s of a signature with r = 1 that signs digest under key k, or one that
\* does not.
ReplyS(k, digest, honest) ==
    IF decompress_pubkey(k).kind = "error" THEN 1
    ELSE IF honest THEN SigningS(decompress_pubkey(k).value, digest, <<1>>)
    ELSE (SigningS(decompress_pubkey(k).value, digest, <<1>>) % 255) + 1

\* The replies to sign_identity: a key among keys, an address among addrs,
\* and a signature of any shape whose s does or does not sign the digest.
ResultReplies(keys, addrs, digest) ==
    {Failed} \cup
    {[fails |-> FALSE, public_key |-> k, address |-> a,
      signature |-> SignatureBlob(m, 1, ReplyS(k, digest, honest), shape)] :
        k \in keys, a \in addrs, m \in Markers, shape \in Shapes, honest \in BOOLEAN}

\* A key other than k, and an address other than that of k.
OtherKey(k) == CHOOSE o \in GoodKeys : o # k

OtherAddress(k) == CHOOSE a \in Addresses : a # pubkey_to_address(k)

\* The replies the call has used: one per request sent.
Used(signer, reqs) ==
    [node    |-> IF "get_public_node" \in Names(reqs) THEN signer.node ELSE Unused,
     display |-> IF "get_address" \in Names(reqs) THEN signer.display ELSE Unused,
     result  |-> IF "sign_identity" \in Names(reqs) THEN signer.result ELSE Unused]

\* The challenge blob a peer writes for a user and a public key.
Challenge(f) ==
    Frame(f.nonce) \o <<50>> \o Frame(f.user) \o Frame(f.conn) \o Frame(f.auth)
    \o <<1>> \o Frame(f.key_type) \o Frame(f.public_key)

FieldValues == {[i \in 1..n |-> 0] : n \in 0..MaxFieldLen}

ChallengeFields ==
    [nonce : FieldValues, user : FieldValues, conn : FieldValues, auth : FieldValues,
     key_type : FieldValues, public_key : KeyBlobs \cup {<<>>}]

\* The blobs the session is asked to sign: the empty one, the challenges for
\* every key, and one with a byte left over.
SessionFields ==
    {f \in ChallengeFields :
        f.nonce = <<0>> /\ f.conn = <<>> /\ f.auth = <<>> /\ f.key_type = <<>> /\ f.user = <<0>>}

SessionBlobs ==
    {[data |-> <<>>, claimed |-> <<>>]}
    \cup {[data |-> Challenge(f), claimed |-> f.public_key] : f \in SessionFields}
    \cup {[data |-> Challenge(f) \o <<0>>, claimed |-> f.public_key] : f \in SessionFields}

\* os.urandom(64) and time.strftime('%d/%m/%y %H:%M:%S'), two values each.
URandomLen == 64

Randoms == {[i \in 1..URandomLen |-> v] : v \in {0, 200}}

Timestamps ==
    {<<48, 49, 47, 48, 49, 47, 49, 53, 32, 48, 48, 58, 48, 48, 58, 48, 48 + sec>> :
        sec \in {0, 1}}

(***************************************************************************)
(* The session: the Client between its construction and its release.       *)
(***************************************************************************)
Init ==
    /\ op = "none"
    /\ arg = <<>>
    /\ returned = Value(None)
    /\ requests = <<>>
    /\ scope = "constructed"
    /\ cleared = FALSE
    /\ closed = FALSE
    /\ history = <<>>

\* The session is entered and the caller holds the result of no call.
Ready == scope = "entered" /\ op = "none"

Enter ==
    /\ scope = "constructed"
    /\ scope' = "entered"
    /\ UNCHANGED <<op, arg, returned, requests, cleared, closed, history>>

GetIdentity ==
    /\ Ready
    /\ \E label \in Labels, protocol \in Protocols :
        /\ arg' = [label |-> label, protocol |-> protocol]
        /\ returned' = get_identity(label, protocol)
    /\ op' = "get_identity"
    /\ requests' = <<>>
    /\ UNCHANGED <<scope, cleared, closed, history>>

GetPublicKey ==
    /\ Ready
    /\ \E id \in Identities, node \in NodeReplies :
        LET signer == [node |-> node, display |-> Unused, result |-> Unused]
            out    == get_public_key(id, signer)
        IN  /\ arg' = [identity |-> id, signer |-> Used(signer, out.requests)]
            /\ returned' = out.returned
            /\ requests' = out.requests
    /\ op' = "get_public_key"
    /\ UNCHANGED <<scope, cleared, closed, history>>

SignSshChallenge ==
    /\ Ready
    /\ \E id \in Identities, blob \in SessionBlobs,
          result \in ResultReplies(SignerKeys, {<<>>}, hashfunc(<<>>)) :
        LET signer == [node |-> Unused, display |-> Unused, result |-> result]
            out    == sign_ssh_challenge(id, blob.data, signer)
        IN  /\ arg' = [identity |-> id, blob |-> blob.data, claimed |-> blob.claimed,
                       signer |-> Used(signer, out.requests)]
            /\ returned' = out.returned
            /\ requests' = out.requests
    /\ op' = "sign_ssh_challenge"
    /\ UNCHANGED <<scope, cleared, closed, history>>

SignIdentity ==
    /\ Ready
    /\ \E label \in Labels, expected \in Addresses \cup {NoAddress},
          visual \in Timestamps, hidden \in Randoms,
          node \in NodeReplies, display \in DisplayReplies :
        \E result \in ResultReplies(
                          IF node.fails THEN GoodKeys
                          ELSE {node.public_key, OtherKey(node.public_key)},
                          IF node.fails THEN Addresses
                          ELSE {pubkey_to_address(node.public_key),
                                OtherAddress(node.public_key)},
                          message_digest(hidden, visual)) :
            LET signer == [node |-> node, display |-> display, result |-> result]
                out    == sign_identity(label, expected, visual, hidden, signer)
            IN  /\ arg' = [label |-> label, expected_address |-> expected,
                           visual |-> visual, hidden |-> hidden,
                           signer |-> Used(signer, out.requests)]
                /\ returned' = out.returned
                /\ requests' = out.requests
    /\ op' = "sign_identity"
    /\ UNCHANGED <<scope, cleared, closed, history>>

\* The caller has taken the result, or handled the error, and goes on.
Resume ==
    /\ scope = "entered"
    /\ ~Ready
    /\ op' = "none"
    /\ arg' = <<>>
    /\ returned' = Value(None)
    /\ requests' = <<>>
    /\ UNCHANGED <<scope, cleared, closed, history>>

\* The scope of the with statement ends, after a result or after an error.
Exit ==
    /\ scope = "entered"
    /\ \E clearFails \in BOOLEAN :
        LET out == __exit__(clearFails)
        IN  /\ returned' = out.returned
            /\ requests' = out.requests
            /\ cleared' = out.cleared
            /\ closed' = out.closed
    /\ op' = "__exit__"
    /\ arg' = [raised |-> returned.kind = "error"]
    /\ scope' = "exited"
    /\ UNCHANGED history

Next ==
    \/ Enter
    \/ GetIdentity
    \/ GetPublicKey
    \/ SignSshChallenge
    \/ SignIdentity
    \/ Resume
    \/ Exit

Spec == Init /\ [][Next]_vars

(***************************************************************************)
(* The identity codec on its own: a string is parsed, and the identity it  *)
(* gave is formatted.                                                      *)
(***************************************************************************)
ParseIdentity ==
    /\ op = "none"
    /\ \E parts \in Parts :
        /\ arg' = [s |-> Assemble(parts), parts |-> parts]
        /\ returned' = _string_to_identity(Assemble(parts))
    /\ op' = "_string_to_identity"
    /\ UNCHANGED <<requests, scope, cleared, closed, history>>

FormatIdentity ==
    /\ op = "_string_to_identity"
    /\ returned.kind = "value"
    /\ op' = "_identity_to_string"
    /\ arg' = [s |-> arg.s, parts |-> arg.parts, identity |-> returned.value]
    /\ returned' = Value(_identity_to_string(returned.value))
    /\ UNCHANGED <<requests, scope, cleared, closed, history>>

NextCodec == ParseIdentity \/ FormatIdentity

SpecCodec == Init /\ [][NextCodec]_vars

(***************************************************************************)
(* The blob codec on its own.  The bytes are a challenge as a peer writes  *)
(* it, cut after any number of bytes, or followed by more bytes, or with   *)
(* one byte changed.                                                       *)
(***************************************************************************)
Tails == {<<0>>, <<0, 0, 0, 0>>}

Patched(b, i, v) == [k \in 1..Len(b) |-> IF k = i THEN v ELSE b[k]]

Damaged(base) ==
    {SubSeq(base, 1, n) : n \in 0..Len(base)}
    \cup {base \o tail : tail \in Tails}
    \cup {Patched(base, i, v) : i \in 1..Len(base), v \in {0, 1}}

ParseBlob ==
    /\ op = "none"
    /\ \E f \in ChallengeFields :
        \E data \in Damaged(Challenge(f)) :
            /\ arg' = [data |-> data, base |-> Challenge(f)]
            /\ returned' = _parse_ssh_blob(data)
    /\ op' = "_parse_ssh_blob"
    /\ UNCHANGED <<requests, scope, cleared, closed, history>>

NextBlob == ParseBlob

SpecBlob == Init /\ [][NextBlob]_vars

(***************************************************************************)
(* The key-path deriver on its own; history holds the last two calls.      *)
(***************************************************************************)
Derive ==
    /\ \E base \in Identities, n \in -1..MaxIndex :
        LET id == IF n < 0 THEN base ELSE WithIndex(base, n)
        IN  /\ arg' = [identity |-> id]
            /\ returned' = Value(_get_address(id))
            /\ history' = (IF history = <<>> THEN <<>> ELSE <<history[Len(history)]>>)
                              \o <<[identity |-> id, path |-> _get_address(id)]>>
    /\ op' = "_get_address"
    /\ UNCHANGED <<requests, scope, cleared, closed>>

NextPath == Derive

SpecPath == Init /\ [][NextPath]_vars

(***************************************************************************)
(* The properties.                                                         *)
(***************************************************************************)
Sent(name) == name \in Names(requests)

Replied(reply) == ~reply.fails

\* The serialized form of a public key the signer returned; no bytes at all
\* when the key is malformed.
SerializedKey(pk) ==
    IF decompress_pubkey(pk).kind = "error" THEN <<>>
    ELSE serialize_verifying_key(decompress_pubkey(pk).value)

\* C1: sign_ssh_challenge returns an (r, s) pair only when the signer has
\* answered with a public key whose serialized form is the public-key blob
\* claimed in the challenge; with any other key the call ends in an error.
C1_NoSignatureForWrongKey ==
    (op = "sign_ssh_challenge" /\ returned.kind = "value") =>
        /\ Replied(arg.signer.result)
        /\ arg.claimed # <<>>
        /\ SerializedKey(arg.signer.result.public_key) = arg.claimed

\* The signer answers a well-formed challenge with a key other than the
\* claimed one, and the call ends in the failed assertion.
C1_Witness ==
    /\ op = "sign_ssh_challenge"
    /\ Replied(arg.signer.result)
    /\ arg.claimed \in KeyBlobs
    /\ SerializedKey(arg.signer.result.public_key) \in KeyBlobs \ {arg.claimed}
    /\ Len(arg.signer.result.signature) = SigLen
    /\ arg.signer.result.signature[1] = 0
    /\ returned = Raise("AssertionError")

\* A signature of another length than 65, or with a marker byte other than 0.
Misshapen(sig) == Len(sig) # SigLen \/ sig[1] # 0

\* C2: in both signing operations a signer result whose signature is not 65
\* bytes long or whose byte 0 is not zero gives no (r, s) pair and not the
\* status 0.
C2_MisshapenSignatureRejected ==
    /\ (op = "sign_ssh_challenge" /\ Replied(arg.signer.result)
            /\ Misshapen(arg.signer.result.signature))
        => returned.kind = "error"
    /\ (op = "sign_identity" /\ Replied(arg.signer.result)
            /\ Misshapen(arg.signer.result.signature))
        => (returned.kind = "value" => returned.value # 0)

\* C3: once the scope of the session is exited, the connection is closed.
C3_ExitCloses == scope = "exited" => closed

\* Whether _string_to_identity takes the label.
Parses(label) == _string_to_identity(label).kind = "value"

\* C4: sign_identity without an expected address never asks the signer to
\* sign; when the label parses and the signer answers, it asks for the public
\* node, asks for the address to be displayed, and returns 2; it returns
\* nothing else.
C4_DisplayOnly ==
    (op = "sign_identity" /\ arg.expected_address = NoAddress) =>
        /\ ~Sent("sign_identity")
        /\ IF Parses(arg.label) /\ Replied(arg.signer.node) /\ Replied(arg.signer.display)
           THEN /\ returned = Value(2)
                /\ Len(requests) = 2
                /\ requests[1].name = "get_public_node"
                /\ requests[2].name = "get_address"
                /\ requests[2].args.show_display
                /\ requests[2].args.n = requests[1].args.n
           ELSE returned.kind = "error"

C4_Witness ==
    /\ op = "sign_identity"
    /\ arg.expected_address = NoAddress
    /\ returned = Value(2)
    /\ Sent("get_address")

\* C7: sign_identity with an expected address other than the address of the
\* signer's public node ends in an error, without a signing request.
C7_AddressMismatchIsFatal ==
    (op = "sign_identity" /\ arg.expected_address # NoAddress
        /\ Replied(arg.signer.node)
        /\ arg.expected_address # pubkey_to_address(arg.signer.node.public_key)) =>
        /\ returned.kind = "error"
        /\ ~Sent("sign_identity")

C7_Witness ==
    /\ op = "sign_identity"
    /\ arg.expected_address \in Addresses
    /\ Replied(arg.signer.node)
    /\ arg.expected_address # pubkey_to_address(arg.signer.node.public_key)
    /\ requests # <<>>
    /\ returned = Raise("AssertionError")

\* C8: get_public_key and sign_ssh_challenge on an identity whose protocol is
\* not "ssh" end in an error and send the signer nothing.
C8_SshOnly ==
    (op \in {"get_public_key", "sign_ssh_challenge"} /\ Field(arg.identity, "proto") # SSH) =>
        /\ returned.kind = "error"
        /\ requests = <<>>

\* A well-formed challenge for an identity of another protocol.
C8_Witness ==
    /\ op = "sign_ssh_challenge"
    /\ Field(arg.identity, "proto") # SSH
    /\ Field(arg.identity, "host") # <<>>
    /\ arg.claimed \in KeyBlobs
    /\ arg.blob = Challenge([nonce |-> <<0>>, user |-> <<0>>, conn |-> <<>>, auth |-> <<>>,
                             key_type |-> <<>>, public_key |-> arg.claimed])
    /\ returned = Raise("AssertionError")
    /\ requests = <<>>

(***************************************************************************)
(* The identity codec.                                                     *)
(***************************************************************************)
Present(parts) == {k \in Fields : parts[k] # None}

Contains(s, sub) ==
    \E i \in 1..(Len(s) - Len(sub) + 1) : SubSeq(s, i, i + Len(sub) - 1) = sub

\* Every part that is there is not empty, the string has no line break, and
\* the path has neither "@" nor "://" in it.
Plain(parts) ==
    /\ \A k \in Present(parts) : parts[k] # <<>>
    /\ ~Contains(Assemble(parts), <<NL>>)
    /\ parts.path # None =>
           /\ ~Contains(parts.path, <<"@">>)
           /\ ~Contains(parts.path, <<":", "/", "/">>)

\* C5, as stated: every string of the grammar whose proto, user, host and
\* port hold no delimiter is parsed, and formatting the identity gives the
\* string back.
C5_RoundTrip ==
    /\ op = "_string_to_identity" => returned.kind = "value"
    /\ op = "_identity_to_string" => returned.value = arg.s

\* C5, amended: the same of the strings whose parts, where present, are not
\* empty, which hold no line break, and whose path holds no "@" and no "://".
C5_RoundTripPlain ==
    /\ (op = "_string_to_identity" /\ Plain(arg.parts)) => returned.kind = "value"
    /\ (op = "_identity_to_string" /\ Plain(arg.parts)) => returned.value = arg.s

\* A string with all five parts has made the round trip.
C5_Witness ==
    /\ op = "_identity_to_string"
    /\ Present(arg.parts) = Fields
    /\ Plain(arg.parts)
    /\ \A k \in Fields : Field(arg.identity, k) = arg.parts[k]
    /\ returned.value = arg.s

\* C6: _string_to_identity never returns an identity without a host.
C6_HostAlwaysCaptured ==
    (op = "_string_to_identity" /\ returned.kind = "value") => "host" \in DOMAIN returned.value

(***************************************************************************)
(* The blob codec.                                                         *)
(***************************************************************************)
\* The bytes are the frames of the record, with some byte after the nonce and
\* some byte after auth.
IsEncodingOf(data, msg) ==
    \E b1 \in {data[i] : i \in 1..Len(data)}, b2 \in {data[i] : i \in 1..Len(data)} :
        data = Frame(msg["nonce"]) \o <<b1>> \o Frame(msg["user"]) \o Frame(msg["conn"])
               \o Frame(msg["auth"]) \o <<b2>> \o Frame(msg["key_type"])
               \o Frame(msg["public_key"].blob)

LongerThan(data, base) == Len(data) > Len(base) /\ SubSeq(data, 1, Len(base)) = base

CutShort(data, base) == Len(data) < Len(base) /\ data = SubSeq(base, 1, Len(data))

\* C9: on bytes that are not empty, _parse_ssh_blob returns a record only
\* when the bytes are exactly its frames and the two single bytes; it ends
\* in an error on a challenge followed by more bytes and on a challenge cut
\* short.
C9_ExactFrames ==
    (op = "_parse_ssh_blob" /\ arg.data # <<>>) =>
        /\ returned.kind = "value" => IsEncodingOf(arg.data, returned.value)
        /\ LongerThan(arg.data, arg.base) => returned.kind = "error"
        /\ CutShort(arg.data, arg.base) => returned.kind = "error"

\* A challenge with a good key and a byte left over is refused for the byte.
C9_Witness ==
    /\ op = "_parse_ssh_blob"
    /\ LongerThan(arg.data, arg.base)
    /\ _parse_ssh_blob(arg.base).kind = "value"
    /\ returned = Raise("AssertionError")

(***************************************************************************)
(* The key-path deriver.                                                   *)
(***************************************************************************)
Calls == {history[i] : i \in DOMAIN history}

\* C10: every key path has five elements, each a 32-bit word with the
\* hardened bit set, the first being 13 | 0x80000000; and two calls on
\* identities with the same index and the same string give the same path.
C10_KeyPath ==
    /\ \A c \in Calls :
        /\ DOMAIN c.path = 1..5
        /\ \A i \in 1..5 : IsU32(c.path[i]) /\ HasHardenedBit(c.path[i])
        /\ c.path[1] = <<128, 0, 0, 13>>
    /\ \A c, d \in Calls :
        (Index(c.identity) = Index(d.identity)
            /\ _identity_to_string(c.identity) = _identity_to_string(d.identity))
        => c.path = d.path

\* Two identities that differ, with one index and one string.
C10_Witness ==
    /\ Len(history) = 2
    /\ history[1].identity # history[2].identity
    /\ Index(history[1].identity) = Index(history[2].identity)
    /\ _identity_to_string(history[1].identity) = _identity_to_string(history[2].identity)
    /\ history[1].path = history[2].path

====
